---- MODULE Spec2Model ----
(***************************************************************************)
(* Coin counter of a pool table (ESP8266 sketch).  A Ticker fires the      *)
(* handler of the current FSM state every 100 ms; every handler reads the  *)
(* LDR input (GPIO2) and may chain into the handler of the next state      *)
(* before it returns.  One action of this model is one firing of the       *)
(* registered callback together with every handler it chains into.         *)
(***************************************************************************)
EXTENDS Integers, Sequences, FiniteSets, TLC

VARIABLES state, openTime, TIMEOUT, coinCount, ticker,
          kind, pre, events, reads, visited, handlers,
          numericIssued, sinceNotice, scenarioStep, scenarioLog,
          textPhase, acks, regs, blockedRun

vars == <<state, openTime, TIMEOUT, coinCount, ticker,
          kind, pre, events, reads, visited, handlers,
          numericIssued, sinceNotice, scenarioStep, scenarioLog,
          textPhase, acks, regs, blockedRun>>

(* ------------------------------ bounds --------------------------------- *)

\* coins counted in one run of the model
MaxCoins == 2

\* digitalRead calls (one per chained handler that samples the pin) in one firing
MaxReads == 4

(* ----------------------------- constants ------------------------------- *)

HIGH == "HIGH"
LOW == "LOW"

DRAWER_CLOSED == "DRAWER_CLOSED"
DRAWER_OPEN == "DRAWER_OPEN"
OPEN_FOR_TOO_LONG == "OPEN_FOR_TOO_LONG"

State == {DRAWER_CLOSED, DRAWER_OPEN, OPEN_FOR_TOO_LONG}

\* int TIMEOUT=18;  and  TIMEOUT = 18;  on the way back to DRAWER_CLOSED
LONG_TIMEOUT == 18

\* TIMEOUT = 3;  on the way into OPEN_FOR_TOO_LONG
SHORT_TIMEOUT == 3

\* attach_ms period of every handler
TICK_MS == 100

\* ticks in one second: openTime grows by 0.1 (seconds) per handler call
TICKS_PER_SECOND == 1000 \div TICK_MS

MSG_OPEN_TOO_LONG == "Pool table is open for too long"
MSG_KEEPS_OPEN == "Pool table keeps open for too long"
MSG_FINALLY_CLOSED == "Pool table drawer was finally closed"

(* ------------------- float openTime (IEEE binary32) -------------------- *)
(* A float x >= 0 is the record [m, e] with value m * 2^e * 2^-27, m < 2^24 *)
(* (0.1f = 13421773 * 2^-27 has exponent e = 0).  `openTime += 0.1` adds    *)
(* the double 0.1 and rounds the sum to float, to nearest.  0.1 * 2^27 is   *)
(* 2^26/5 up to 1e-9 of a unit, so the sum always lies at least 0.2 units   *)
(* from a rounding boundary and rounding the exact sum m*2^e + 2^26/5 gives *)
(* the same float.                                                          *)

RECURSIVE Pow2(_)
Pow2(n) == IF n = 0 THEN 1 ELSE 2 * Pow2(n - 1)

FloatZero == [m |-> 0, e |-> 0]

\* openTime += 0.1 that chops the sum instead of rounding it to nearest
FloatAddTenth_Chop(x) ==
    LET num == 5 * x.m + Pow2(26 - x.e)
        m0 == num \div 5
        m1 == num \div 10
    IN  IF m0 < Pow2(24) THEN [m |-> m0, e |-> x.e]
                         ELSE [m |-> m1, e |-> x.e + 1]

FloatAddTenth(x) ==
    LET num == 5 * x.m + Pow2(26 - x.e)
        m0 == (2 * num + 5) \div 10
        m1 == (2 * num + 10) \div 20
    IN  IF m0 < Pow2(24) THEN [m |-> m0, e |-> x.e]
                         ELSE [m |-> m1, e |-> x.e + 1]

\* openTime >= TIMEOUT with an int TIMEOUT converted to float
FloatGE(x, t) == x.m \div Pow2(27 - x.e) >= t

(* ------------------------------ Ticker --------------------------------- *)

(* fresh: attach_ms armed the timer since it last fired, so the next firing   *)
(* comes a full period after that call.                                     *)

NoTicker == [active |-> FALSE, period |-> 0, callback |-> "none", fresh |-> FALSE]

\* ticker.attach_ms(timeout, callback)
attach_ms(t, timeout, callback) ==
    [active |-> TRUE, period |-> timeout, callback |-> callback, fresh |-> TRUE]

\* the periodic timer fired and runs on
Fired(t) == [t EXCEPT !.fresh = FALSE]

\* activateTimerIfNotActive without the ticker.active() test
activateTimerIfNotActive_Always(t, timeout, callback) ==
    attach_ms(t, timeout, callback)

activateTimerIfNotActive(t, timeout, callback) ==
    IF ~t.active
    THEN attach_ms(t, timeout, callback)
    ELSE t

deactivateTimer(t) == NoTicker

(* --------------------------- side effects ------------------------------ *)

Increment(n) == [op |-> "increment", feed |-> "", n |-> n, msg |-> ""]
Numeric(n) == [op |-> "publish", feed |-> "coin-counter", n |-> n, msg |-> ""]
Text(m) == [op |-> "publish", feed |-> "reporter", n |-> 0, msg |-> m]

\* publish(...): the event and the bool the call returns, which no caller reads
publish(s, e, ok) ==
    [s EXCEPT !.events = Append(@, e), !.acks = Append(@, ok)]

\* digitalRead(2): the next sample of the pin
digitalRead(s) ==
    [s EXCEPT !.reads = Append(@, Head(s.input)), !.input = Tail(@)]

Sampled(s) == s.reads[Len(s.reads)]

Called(s, h) == [s EXCEPT !.handlers = Append(@, h)]

GoTo(s, st) == [s EXCEPT !.state = st, !.visited = Append(@, st)]

\* a handler's call of activateTimerIfNotActive, with the Ticker before and after
Register(s, timeout, callback) ==
    LET t == activateTimerIfNotActive(s.ticker, timeout, callback)
    IN  [s EXCEPT !.ticker = t,
                  !.regs = Append(@, [was |-> s.ticker, callback |-> callback,
                                      period |-> timeout, now |-> t])]

(* ------------------------- handler fragments --------------------------- *)

\* ClosedEntry without line 138 (openTime = 0)
ClosedEntry_NoReset(s) ==
    Register(s, TICK_MS, "process_DRAWER_CLOSED_state")

\* process_DRAWER_CLOSED_state: openTime = 0; attach if not attached
ClosedEntry(s) ==
    Register([s EXCEPT !.openTime = FloatZero], TICK_MS, "process_DRAWER_CLOSED_state")

\* ClosedToOpen without line 148 (deactivateTimer)
ClosedToOpen_NoDetach(s) ==
    GoTo(s, DRAWER_OPEN)

\* process_DRAWER_CLOSED_state, pin HIGH: detach, state = DRAWER_OPEN
ClosedToOpen(s) ==
    GoTo([s EXCEPT !.ticker = deactivateTimer(@)], DRAWER_OPEN)

\* process_DRAWER_OPEN_state: attach if not attached; openTime += 0.1
OpenEntry(s) ==
    [Register(s, TICK_MS, "process_DRAWER_OPEN_state") EXCEPT !.openTime = FloatAddTenth(@)]

\* OpenTimedOut that counts the coin on promotion
OpenTimedOut_CountsCoin(s, ok) ==
    LET a == GoTo([s EXCEPT !.ticker = deactivateTimer(@),
                            !.coinCount = @ + 1], OPEN_FOR_TOO_LONG)
        b == [a EXCEPT !.TIMEOUT = SHORT_TIMEOUT,
                       !.openTime = FloatZero,
                       !.events = Append(@, Increment(a.coinCount))]
    IN  publish(publish(b, Numeric(a.coinCount), ok), Text(MSG_OPEN_TOO_LONG), ok)

\* OpenTimedOut without line 174 (openTime = 0)
OpenTimedOut_NoReset(s, ok) ==
    LET a == GoTo([s EXCEPT !.ticker = deactivateTimer(@)], OPEN_FOR_TOO_LONG)
        b == [a EXCEPT !.TIMEOUT = SHORT_TIMEOUT]
    IN  publish(b, Text(MSG_OPEN_TOO_LONG), ok)

\* process_DRAWER_OPEN_state, openTime >= TIMEOUT
OpenTimedOut(s, ok) ==
    LET a == GoTo([s EXCEPT !.ticker = deactivateTimer(@)], OPEN_FOR_TOO_LONG)
        b == [a EXCEPT !.TIMEOUT = SHORT_TIMEOUT,
                       !.openTime = FloatZero]
    IN  publish(b, Text(MSG_OPEN_TOO_LONG), ok)

\* OpenToClosed that publishes before it increments
OpenToClosed_PublishFirst(s, ok) ==
    LET a == publish([s EXCEPT !.ticker = deactivateTimer(@)], Numeric(s.coinCount), ok)
        b == [a EXCEPT !.coinCount = @ + 1,
                       !.events = Append(@, Increment(a.coinCount + 1))]
    IN  GoTo(b, DRAWER_CLOSED)

\* OpenToClosed that takes the coin back when the publish fails
OpenToClosed_UndoOnFailure(s, ok) ==
    LET a == [s EXCEPT !.ticker = deactivateTimer(@),
                       !.coinCount = @ + 1]
        b == publish([a EXCEPT !.events = Append(@, Increment(a.coinCount))],
                     Numeric(a.coinCount), ok)
        c == IF ok THEN b ELSE [b EXCEPT !.coinCount = @ - 1]
    IN  GoTo(c, DRAWER_CLOSED)

\* process_DRAWER_OPEN_state, pin LOW: detach, coinCount++, publish, state = DRAWER_CLOSED
OpenToClosed(s, ok) ==
    LET a == [s EXCEPT !.ticker = deactivateTimer(@),
                       !.coinCount = @ + 1]
        b == publish([a EXCEPT !.events = Append(@, Increment(a.coinCount))],
                     Numeric(a.coinCount), ok)
    IN  GoTo(b, DRAWER_CLOSED)

\* StuckEntry without line 206 (openTime += 0.1)
StuckEntry_NoTick(s) ==
    Register(s, TICK_MS, "process_OPEN_FOR_TOO_LONG_state")

\* process_OPEN_FOR_TOO_LONG_state: attach if not attached; openTime += 0.1
StuckEntry(s) ==
    [Register(s, TICK_MS, "process_OPEN_FOR_TOO_LONG_state") EXCEPT
        !.openTime = FloatAddTenth(@)]

\* StuckToClosed that reports the closure before the count
StuckToClosed_TextFirst(s, ok1, ok2) ==
    LET a == [s EXCEPT !.ticker = deactivateTimer(@),
                       !.coinCount = @ + 1]
        b == publish(publish([a EXCEPT !.events = Append(@, Increment(a.coinCount))],
                             Text(MSG_FINALLY_CLOSED), ok1),
                     Numeric(a.coinCount), ok2)
        c == GoTo(b, DRAWER_CLOSED)
    IN  [c EXCEPT !.TIMEOUT = LONG_TIMEOUT, !.openTime = FloatZero]

\* StuckToClosed without line 225 (TIMEOUT = 18)
StuckToClosed_KeepsShort(s, ok1, ok2) ==
    LET a == [s EXCEPT !.ticker = deactivateTimer(@),
                       !.coinCount = @ + 1]
        b == publish(publish([a EXCEPT !.events = Append(@, Increment(a.coinCount))],
                             Numeric(a.coinCount), ok1),
                     Text(MSG_FINALLY_CLOSED), ok2)
        c == GoTo(b, DRAWER_CLOSED)
    IN  [c EXCEPT !.openTime = FloatZero]

\* StuckToClosed without line 219 (the "finally closed" report)
StuckToClosed_NoText(s, ok1, ok2) ==
    LET a == [s EXCEPT !.ticker = deactivateTimer(@),
                       !.coinCount = @ + 1]
        b == publish([a EXCEPT !.events = Append(@, Increment(a.coinCount))],
                     Numeric(a.coinCount), ok1)
        c == GoTo(b, DRAWER_CLOSED)
    IN  [c EXCEPT !.TIMEOUT = LONG_TIMEOUT, !.openTime = FloatZero]

\* process_OPEN_FOR_TOO_LONG_state, pin LOW
StuckToClosed(s, ok1, ok2) ==
    LET a == [s EXCEPT !.ticker = deactivateTimer(@),
                       !.coinCount = @ + 1]
        b == publish(publish([a EXCEPT !.events = Append(@, Increment(a.coinCount))],
                             Numeric(a.coinCount), ok1),
                     Text(MSG_FINALLY_CLOSED), ok2)
        c == GoTo(b, DRAWER_CLOSED)
    IN  [c EXCEPT !.TIMEOUT = LONG_TIMEOUT, !.openTime = FloatZero]

\* StuckNotify without line 240 (openTime = 0)
StuckNotify_NoReset(s, ok) ==
    publish(s, Text(MSG_KEEPS_OPEN), ok)

\* process_OPEN_FOR_TOO_LONG_state, pin HIGH and openTime >= TIMEOUT
StuckNotify(s, ok) ==
    [publish(s, Text(MSG_KEEPS_OPEN), ok) EXCEPT !.openTime = FloatZero]

(* ------------------------------ handlers ------------------------------- *)
(* s.input holds the samples the pin will give to the digitalRead calls of  *)
(* this firing; a chain that needs more samples than s.input holds is cut.  *)
(* A handler yields the set of machines it can return: one for each way the *)
(* publish calls it makes can succeed or fail.                              *)

RECURSIVE process_DRAWER_CLOSED_state(_)
RECURSIVE process_DRAWER_OPEN_state(_)
RECURSIVE process_OPEN_FOR_TOO_LONG_state(_)

process_DRAWER_CLOSED_state(s) ==
    LET a == ClosedEntry(Called(s, "process_DRAWER_CLOSED_state"))
    IN  IF a.input = <<>> THEN {[a EXCEPT !.cut = TRUE]}
        ELSE LET b == digitalRead(a)
             IN  IF Sampled(b) = HIGH
                 THEN process_DRAWER_OPEN_state(ClosedToOpen(b))
                 ELSE {b}

process_DRAWER_OPEN_state(s) ==
    LET a == OpenEntry(Called(s, "process_DRAWER_OPEN_state"))
    IN  IF FloatGE(a.openTime, a.TIMEOUT)
        THEN UNION {process_OPEN_FOR_TOO_LONG_state(OpenTimedOut(a, ok)) : ok \in BOOLEAN}
        ELSE IF a.input = <<>> THEN {[a EXCEPT !.cut = TRUE]}
        ELSE LET b == digitalRead(a)
             IN  IF Sampled(b) = LOW
                 THEN UNION {process_DRAWER_CLOSED_state(OpenToClosed(b, ok)) : ok \in BOOLEAN}
                 ELSE {b}

process_OPEN_FOR_TOO_LONG_state(s) ==
    LET a == StuckEntry(Called(s, "process_OPEN_FOR_TOO_LONG_state"))
    IN  IF a.input = <<>> THEN {[a EXCEPT !.cut = TRUE]}
        ELSE LET b == digitalRead(a)
             IN  IF Sampled(b) = LOW
                 THEN UNION {process_DRAWER_CLOSED_state(StuckToClosed(b, ok1, ok2)) :
                                ok1 \in BOOLEAN, ok2 \in BOOLEAN}
                 ELSE IF FloatGE(b.openTime, b.TIMEOUT)
                      THEN {StuckNotify(b, ok) : ok \in BOOLEAN}
                      ELSE {b}

(* --------------------------- specification ----------------------------- *)

Pubs(ev) == SelectSeq(ev, LAMBDA x : x.op = "publish")

NumericPubs(ev) == SelectSeq(ev, LAMBDA x : x.op = "publish" /\ x.feed = "coin-counter")

IsNotice(x) ==
    x.op = "publish" /\ x.msg \in {MSG_OPEN_TOO_LONG, MSG_KEEPS_OPEN}

TextPubs(ev) == SelectSeq(ev, LAMBDA x : x.op = "publish" /\ x.feed = "reporter")

\* where the reporter feed stands after the text publishes tp: "idle", then
\* "jam" from "open too long" to "finally closed"; "bad" on any other order
RECURSIVE FeedPhase(_, _)
FeedPhase(phase, tp) ==
    IF tp = <<>> THEN phase
    ELSE LET m == Head(tp).msg
             next == CASE phase = "idle" /\ m = MSG_OPEN_TOO_LONG -> "jam"
                       [] phase = "jam" /\ m = MSG_KEEPS_OPEN -> "jam"
                       [] phase = "jam" /\ m = MSG_FINALLY_CLOSED -> "idle"
                       [] OTHER -> "bad"
         IN  FeedPhase(next, Tail(tp))

AllReads(rs, v) == \A i \in 1..Len(rs) : rs[i] = v

\* the samples the pin can give during one firing
Inputs == UNION {[1..n -> {LOW, HIGH}] : n \in 1..MaxReads}

\* the ticks of the scenario: LIGHT_ON x2, LIGHT_BLOCKED x12, LIGHT_ON x1
ScenarioLen == 2 + 12 + 1

ScenarioReading(i) == IF i <= 2 THEN LOW ELSE IF i <= 14 THEN HIGH ELSE LOW

\* blockedRun stops counting one tick past the long threshold
RunCap == LONG_TIMEOUT * TICKS_PER_SECOND + 1

Snapshot ==
    [state |-> state, openTime |-> openTime, TIMEOUT |-> TIMEOUT,
     coinCount |-> coinCount, sinceNotice |-> sinceNotice, ticker |-> ticker]

Machine(input) ==
    [state |-> state, openTime |-> openTime, TIMEOUT |-> TIMEOUT,
     coinCount |-> coinCount, ticker |-> Fired(ticker),
     events |-> <<>>, reads |-> <<>>, visited |-> <<state>>, handlers |-> <<>>,
     input |-> input, cut |-> FALSE, acks |-> <<>>, regs |-> <<>>]

\* the firing r ran to its end on exactly the samples it was given
Commit(r, k) ==
    /\ ~r.cut
    /\ r.input = <<>>
    /\ r.coinCount <= MaxCoins
    /\ state' = r.state
    /\ openTime' = r.openTime
    /\ TIMEOUT' = r.TIMEOUT
    /\ coinCount' = r.coinCount
    /\ ticker' = r.ticker
    /\ kind' = k
    /\ pre' = Snapshot
    /\ events' = r.events
    /\ reads' = r.reads
    /\ visited' = r.visited
    /\ handlers' = r.handlers
    /\ acks' = r.acks
    /\ regs' = r.regs
    /\ blockedRun' =
          IF k # "tick" \/ ~AllReads(r.reads, HIGH) THEN 0
          ELSE IF state = DRAWER_CLOSED THEN 1
          ELSE IF blockedRun = 0 THEN 0
          ELSE IF blockedRun < RunCap THEN blockedRun + 1
          ELSE RunCap
    /\ numericIssued' = numericIssued + Len(NumericPubs(r.events))
    /\ textPhase' = FeedPhase(textPhase, TextPubs(r.events))
    /\ sinceNotice' =
          IF r.state # OPEN_FOR_TOO_LONG THEN 0
          ELSE IF \E i \in 1..Len(r.events) : IsNotice(r.events[i]) THEN 0
          ELSE sinceNotice + 1
    /\ LET on == IF k = "setup"
                 THEN r.state = DRAWER_CLOSED /\ r.coinCount = 0
                 ELSE /\ scenarioStep \in 0..(ScenarioLen - 1)
                      /\ AllReads(r.reads, ScenarioReading(scenarioStep + 1))
       IN  /\ scenarioStep' = IF ~on THEN -1
                              ELSE IF k = "setup" THEN 0 ELSE scenarioStep + 1
           /\ scenarioLog' = IF ~on THEN <<>>
                             ELSE IF k = "setup" THEN <<>>
                             ELSE scenarioLog \o Pubs(r.events)

Init ==
    /\ state = DRAWER_CLOSED
    /\ openTime = FloatZero
    /\ TIMEOUT = LONG_TIMEOUT
    /\ coinCount = 0
    /\ ticker = NoTicker
    /\ kind = "boot"
    /\ pre = [state |-> DRAWER_CLOSED, openTime |-> FloatZero, TIMEOUT |-> LONG_TIMEOUT,
              coinCount |-> 0, sinceNotice |-> 0, ticker |-> NoTicker]
    /\ events = <<>>
    /\ reads = <<>>
    /\ visited = <<DRAWER_CLOSED>>
    /\ handlers = <<>>
    /\ numericIssued = 0
    /\ sinceNotice = 0
    /\ scenarioStep = -1
    /\ scenarioLog = <<>>
    /\ textPhase = "idle"
    /\ acks = <<>>
    /\ regs = <<>>
    /\ blockedRun = 0

\* setup(): process_DRAWER_CLOSED_state() called directly, once
setup ==
    /\ kind = "boot"
    /\ \E input \in Inputs : \E r \in process_DRAWER_CLOSED_state(Machine(input)) : Commit(r, "setup")

\* the Ticker fires process_DRAWER_CLOSED_state
TickClosed ==
    /\ kind # "boot"
    /\ ticker.active
    /\ ticker.callback = "process_DRAWER_CLOSED_state"
    /\ \E input \in Inputs : \E r \in process_DRAWER_CLOSED_state(Machine(input)) : Commit(r, "tick")

\* the Ticker fires process_DRAWER_OPEN_state
TickOpen ==
    /\ kind # "boot"
    /\ ticker.active
    /\ ticker.callback = "process_DRAWER_OPEN_state"
    /\ \E input \in Inputs : \E r \in process_DRAWER_OPEN_state(Machine(input)) : Commit(r, "tick")

\* the Ticker fires process_OPEN_FOR_TOO_LONG_state
TickStuck ==
    /\ kind # "boot"
    /\ ticker.active
    /\ ticker.callback = "process_OPEN_FOR_TOO_LONG_state"
    /\ \E input \in Inputs : \E r \in process_OPEN_FOR_TOO_LONG_state(Machine(input)) : Commit(r, "tick")

Next == setup \/ TickClosed \/ TickOpen \/ TickStuck

Spec == Init /\ [][Next]_vars

TypeOK ==
    /\ state \in State
    /\ TIMEOUT \in {LONG_TIMEOUT, SHORT_TIMEOUT}
    /\ coinCount \in 0..MaxCoins
    /\ kind \in {"boot", "setup", "tick"}

(* ------------------------------- claims -------------------------------- *)
(* kind = "tick" marks the state after one firing of the Ticker; pre is    *)
(* the FSM before that firing, reads the samples its handlers took,        *)
(* events what they did, visited the states they went through.             *)

IsTick == kind = "tick"

\* every sample of the firing read LIGHT_BLOCKED (pin HIGH)
Blocked == AllReads(reads, HIGH)

\* every sample of the firing read LIGHT_ON (pin LOW)
LightOn == AllReads(reads, LOW)

\* 0.1f, the float nearest to 0.1: one tick period of open time
TenthF == [m |-> 13421773, e |-> 0]

\* entries into DRAWER_CLOSED during the firing
Closures == Cardinality({i \in 2..Len(visited) : visited[i] = DRAWER_CLOSED})

\* C1: CoinCount never decreases, a tick changes it by 0 or by exactly 1,
\* and it grows by exactly 1 per completed cycle (per return to DRAWER_CLOSED,
\* from DRAWER_OPEN or from OPEN_FOR_TOO_LONG), never on promotion.
C1_OncePerCycle ==
    IsTick =>
        /\ coinCount >= pre.coinCount
        /\ coinCount - pre.coinCount \in {0, 1}
        /\ coinCount - pre.coinCount = Closures

\* C2: a tick that starts in DRAWER_OPEN (or, after promotion, in
\* OPEN_FOR_TOO_LONG) and reads LIGHT_BLOCKED leaves CoinCount unchanged and
\* fires no numeric publish; CoinCount changes only on a tick that reads
\* LIGHT_ON.
C2_NoDoubleCount ==
    IsTick =>
        /\ (pre.state \in {DRAWER_OPEN, OPEN_FOR_TOO_LONG} /\ Blocked) =>
              /\ coinCount = pre.coinCount
              /\ NumericPubs(events) = <<>>
              /\ state \in {DRAWER_OPEN, OPEN_FOR_TOO_LONG}
        /\ coinCount # pre.coinCount => \E i \in 1..Len(reads) : reads[i] = LOW

C2_Witness ==
    /\ IsTick /\ Blocked
    /\ pre.state = DRAWER_OPEN /\ state = OPEN_FOR_TOO_LONG
    /\ coinCount = pre.coinCount

\* C3: after LIGHT_ON x2, LIGHT_BLOCKED x12, LIGHT_ON x1 from DRAWER_CLOSED with
\* CoinCount = 0 the FSM is in DRAWER_CLOSED with CoinCount = 1 and the
\* publishes were exactly "open too long", numeric(1), "finally closed".
C3_Scenario ==
    scenarioStep = ScenarioLen =>
        /\ state = DRAWER_CLOSED
        /\ coinCount = 1
        /\ scenarioLog = <<Text(MSG_OPEN_TOO_LONG), Numeric(1), Text(MSG_FINALLY_CLOSED)>>

\* C4: a tick that starts in OPEN_FOR_TOO_LONG and reads LIGHT_ON ends in
\* DRAWER_CLOSED, increments CoinCount by 1, publishes the new count and then
\* "finally closed" and nothing else, leaves openTime at 0 and TIMEOUT long.
C4_Recovery ==
    (IsTick /\ pre.state = OPEN_FOR_TOO_LONG /\ LightOn) =>
        /\ state = DRAWER_CLOSED
        /\ coinCount = pre.coinCount + 1
        /\ Pubs(events) = <<Numeric(pre.coinCount + 1), Text(MSG_FINALLY_CLOSED)>>
        /\ openTime = FloatZero
        /\ TIMEOUT = LONG_TIMEOUT

C4_Witness ==
    /\ IsTick /\ pre.state = OPEN_FOR_TOO_LONG /\ LightOn
    /\ pre.TIMEOUT = SHORT_TIMEOUT
    /\ coinCount = 1

\* the firing starts in DRAWER_OPEN, reads LIGHT_BLOCKED, and its tick period
\* brings openTime up to the long threshold
ReachesLong ==
    /\ IsTick /\ Blocked
    /\ pre.state = DRAWER_OPEN
    /\ FloatGE(FloatAddTenth(pre.openTime), pre.TIMEOUT)

C6_Cadence ==
    (IsTick /\ pre.state = OPEN_FOR_TOO_LONG /\ Blocked) =>
        /\ state = OPEN_FOR_TOO_LONG
        /\ coinCount = pre.coinCount
        /\ NumericPubs(events) = <<>>
        /\ (Pubs(events) = <<Text(MSG_KEEPS_OPEN)>>
              <=> pre.sinceNotice + 1 = SHORT_TIMEOUT * TICKS_PER_SECOND)
        /\ Pubs(events) \in {<<>>, <<Text(MSG_KEEPS_OPEN)>>}

\* C7: a tick that starts in DRAWER_CLOSED and reads LIGHT_ON stays in
\* DRAWER_CLOSED, does nothing observable, keeps CoinCount and TIMEOUT, and
\* openTime is 0 before and after.
C7_IdempotentClosed ==
    (IsTick /\ pre.state = DRAWER_CLOSED /\ LightOn) =>
        /\ state = DRAWER_CLOSED
        /\ events = <<>>
        /\ coinCount = pre.coinCount
        /\ TIMEOUT = pre.TIMEOUT
        /\ pre.openTime = FloatZero
        /\ openTime = FloatZero

C7_Witness ==
    /\ IsTick /\ pre.state = DRAWER_CLOSED /\ LightOn
    /\ state = DRAWER_CLOSED
    /\ coinCount > 0

\* C8: one firing of the callback, chained handlers included, publishes at
\* most twice.
C8_AtMostTwoPublishes ==
    IsTick => Len(Pubs(events)) <= 2

\* C9: every increment is followed at once by one numeric publish of the new
\* value, no numeric publish comes without its increment, the values of a
\* firing continue the count, and the numeric publishes issued so far are as
\* many as CoinCount.
C9_IncrementThenPublish ==
    /\ numericIssued = coinCount
    /\ \A i \in 1..Len(events) :
          /\ events[i].op = "increment" =>
                i < Len(events) /\ events[i + 1] = Numeric(events[i].n)
          /\ events[i].feed = "coin-counter" =>
                i > 1 /\ events[i - 1] = Increment(events[i].n)
    /\ \A k \in 1..Len(NumericPubs(events)) :
          NumericPubs(events)[k].n = pre.coinCount + k

C9_Witness ==
    /\ IsTick
    /\ Len(NumericPubs(events)) = 2
    /\ coinCount = 2

C11_ThresholdByState ==
    /\ TIMEOUT \in {LONG_TIMEOUT, SHORT_TIMEOUT}
    /\ TIMEOUT = SHORT_TIMEOUT <=> state = OPEN_FOR_TOO_LONG
    /\ state \in {DRAWER_CLOSED, DRAWER_OPEN} => TIMEOUT = LONG_TIMEOUT

C11_Witness ==
    /\ IsTick
    /\ pre.state = OPEN_FOR_TOO_LONG /\ pre.TIMEOUT = SHORT_TIMEOUT
    /\ state = DRAWER_CLOSED /\ TIMEOUT = LONG_TIMEOUT

\* text publishes of the firing with message m
Said(m) == Cardinality({i \in 1..Len(events) : events[i] = Text(m)})

\* steps from state a to state b during the firing
Edges(a, b) ==
    Cardinality({i \in 2..Len(visited) : visited[i - 1] = a /\ visited[i] = b})

\* C12: "open too long" is published once per entry into OPEN_FOR_TOO_LONG
\* and only there, "keeps open" only by a firing that is and stays in
\* OPEN_FOR_TOO_LONG, "finally closed" once per step from OPEN_FOR_TOO_LONG to
\* DRAWER_CLOSED and only there; the reporter feed is a repetition of "open
\* too long", any number of "keeps open", "finally closed".
C12_TextFeedOrder ==
    /\ Said(MSG_OPEN_TOO_LONG) = Edges(DRAWER_OPEN, OPEN_FOR_TOO_LONG)
    /\ Edges(DRAWER_CLOSED, OPEN_FOR_TOO_LONG) = 0
    /\ Said(MSG_FINALLY_CLOSED) = Edges(OPEN_FOR_TOO_LONG, DRAWER_CLOSED)
    /\ Said(MSG_KEEPS_OPEN) > 0 =>
          /\ Said(MSG_KEEPS_OPEN) = 1
          /\ visited = <<OPEN_FOR_TOO_LONG>>
    /\ Len(TextPubs(events)) =
          Said(MSG_OPEN_TOO_LONG) + Said(MSG_KEEPS_OPEN) + Said(MSG_FINALLY_CLOSED)
    /\ textPhase \in {"idle", "jam"}
    /\ textPhase = "jam" <=> state = OPEN_FOR_TOO_LONG

C12_Witness ==
    /\ IsTick
    /\ pre.state = OPEN_FOR_TOO_LONG /\ pre.sinceNotice > SHORT_TIMEOUT
    /\ Said(MSG_FINALLY_CLOSED) = 1
    /\ coinCount = 2
    /\ textPhase = "idle"

\* the machines the last firing can return from where it started, on the
\* samples it took, over every outcome of its publish calls
Reruns ==
    LET m == [state |-> pre.state, openTime |-> pre.openTime, TIMEOUT |-> pre.TIMEOUT,
              coinCount |-> pre.coinCount, ticker |-> Fired(pre.ticker),
              events |-> <<>>, reads |-> <<>>, visited |-> <<pre.state>>,
              handlers |-> <<>>, input |-> reads, cut |-> FALSE, acks |-> <<>>,
              regs |-> <<>>]
    IN  CASE kind = "boot" -> {}
          [] kind = "setup" -> process_DRAWER_CLOSED_state(m)
          [] pre.ticker.callback = "process_DRAWER_CLOSED_state" ->
                process_DRAWER_CLOSED_state(m)
          [] pre.ticker.callback = "process_DRAWER_OPEN_state" ->
                process_DRAWER_OPEN_state(m)
          [] pre.ticker.callback = "process_OPEN_FOR_TOO_LONG_state" ->
                process_OPEN_FOR_TOO_LONG_state(m)

\* C13: whatever the publish calls of a firing return, the firing ends with
\* the same state, openTime, TIMEOUT, coinCount and Ticker, takes the same
\* samples and makes the same publish calls: none is repeated after a failure.
C13_PublishOutcomeIgnored ==
    /\ Len(acks) = Len(Pubs(events))
    /\ \A q \in Reruns :
          /\ ~q.cut /\ q.input = <<>>
          /\ q.state = state
          /\ q.openTime = openTime
          /\ q.TIMEOUT = TIMEOUT
          /\ q.coinCount = coinCount
          /\ q.ticker = ticker
          /\ q.events = events
          /\ q.handlers = handlers
    /\ kind # "boot" => {q.acks : q \in Reruns} = [1..Len(acks) -> BOOLEAN]

C13_Witness ==
    /\ IsTick
    /\ pre.state = OPEN_FOR_TOO_LONG /\ state = DRAWER_CLOSED
    /\ acks = <<FALSE, FALSE>>
    /\ coinCount = pre.coinCount + 1

Handlers ==
    {"process_DRAWER_CLOSED_state", "process_DRAWER_OPEN_state",
     "process_OPEN_FOR_TOO_LONG_state"}

\* C14: the Ticker holds at most one registration, and a request to register
\* made while one is active changes nothing: not the handler, not the period,
\* and the timer is not armed again; a request made while none is active
\* registers the requested handler and period.
C14_RegisterOnceNoOp ==
    /\ ticker.active => ticker.callback \in Handlers /\ ticker.period = TICK_MS
    /\ ~ticker.active => ticker = NoTicker
    /\ \A i \in 1..Len(regs) :
          /\ regs[i].was.active => regs[i].now = regs[i].was
          /\ ~regs[i].was.active =>
                regs[i].now = [active |-> TRUE, period |-> regs[i].period,
                               callback |-> regs[i].callback, fresh |-> TRUE]

C14_Witness ==
    /\ IsTick
    /\ Len(regs) = 2
    /\ regs[1].was.active /\ regs[1].now = regs[1].was
    /\ ~regs[2].was.active /\ regs[2].now.callback # regs[1].now.callback

\* C15: a tick that starts in DRAWER_OPEN and reads LIGHT_ON ends in
\* DRAWER_CLOSED, counts one coin and publishes the count and nothing else,
\* without passing through OPEN_FOR_TOO_LONG, whatever openTime is.
C15_OpenLightOnOnlyCounts ==
    (IsTick /\ pre.state = DRAWER_OPEN /\ LightOn) =>
        /\ state = DRAWER_CLOSED
        /\ coinCount = pre.coinCount + 1
        /\ Pubs(events) = <<Numeric(pre.coinCount + 1)>>
        /\ \A i \in 1..Len(visited) : visited[i] # OPEN_FOR_TOO_LONG

\* C16: one tick steps from DRAWER_CLOSED to DRAWER_OPEN at most once and
\* from DRAWER_OPEN to OPEN_FOR_TOO_LONG at most once.
C16_EntriesOncePerTick ==
    IsTick =>
        /\ Edges(DRAWER_CLOSED, DRAWER_OPEN) <= 1
        /\ Edges(DRAWER_OPEN, OPEN_FOR_TOO_LONG) <= 1

\* the most handler calls a firing makes while the pin holds still
\* (DRAWER_OPEN, OPEN_FOR_TOO_LONG, DRAWER_CLOSED): one per handler
HandlerBound == Cardinality(Handlers)

\* C17: every firing ends in one of the three states after a number of
\* handler calls bounded by a constant.
C17_BoundedChain ==
    IsTick =>
        /\ state \in State
        /\ Len(handlers) <= HandlerBound

HandlerOf(st) ==
    CASE st = DRAWER_CLOSED -> "process_DRAWER_CLOSED_state"
      [] st = DRAWER_OPEN -> "process_DRAWER_OPEN_state"
      [] st = OPEN_FOR_TOO_LONG -> "process_OPEN_FOR_TOO_LONG_state"

\* C18: after setup and after every tick the Ticker is active with period
\* 100 and holds the handler of the current state; a tick runs the handler
\* the Ticker held, whatever `state` is; a firing that detached has attached
\* again before it returns, and the next tick can always fire.
C18_HandlerMatchesState ==
    kind # "boot" =>
        /\ ticker.active
        /\ ticker.period = TICK_MS
        /\ ticker.callback = HandlerOf(state)
        /\ regs # <<>> /\ regs[Len(regs)].now = ticker
        /\ IsTick => handlers[1] = pre.ticker.callback
        /\ ENABLED (TickClosed \/ TickOpen \/ TickStuck)

C18_Witness ==
    /\ IsTick
    /\ pre.ticker.callback = "process_DRAWER_OPEN_state"
    /\ ticker.callback = "process_OPEN_FOR_TOO_LONG_state"
    /\ ticker.fresh
    /\ Len(regs) = 2

\* ticks the long threshold takes: LONG_TIMEOUT seconds of TICK_MS
LongTicks == LONG_TIMEOUT * TICKS_PER_SECOND

\* C19: after k consecutive LIGHT_BLOCKED ticks that started in DRAWER_CLOSED
\* the FSM is in OPEN_FOR_TOO_LONG exactly if k >= LongTicks, and "open too
\* long" is published on exactly the tick k = LongTicks.
C19_PromotionAtThreshold ==
    blockedRun > 0 =>
        /\ state = OPEN_FOR_TOO_LONG <=> blockedRun >= LongTicks
        /\ state = DRAWER_OPEN <=> blockedRun < LongTicks
        /\ Said(MSG_OPEN_TOO_LONG) = 1 <=> blockedRun = LongTicks
        /\ Said(MSG_OPEN_TOO_LONG) <= 1

C19_Witness ==
    /\ blockedRun = LongTicks
    /\ state = OPEN_FOR_TOO_LONG
    /\ pre.state = DRAWER_OPEN
    /\ Said(MSG_OPEN_TOO_LONG) = 1

\* x <= y for floats of this model (mantissas normalised, or zero)
FloatLE(x, y) ==
    IF x.m = 0 THEN TRUE
    ELSE IF y.m = 0 THEN FALSE
    ELSE IF x.e = y.e THEN x.m <= y.m
    ELSE x.e < y.e

\* C20: at every tick boundary openTime is 0 in DRAWER_CLOSED, at least one
\* tick period and below the long threshold in DRAWER_OPEN, and below the
\* short threshold in OPEN_FOR_TOO_LONG.
C20_OpenTimeBounded ==
    /\ state = DRAWER_CLOSED => openTime = FloatZero
    /\ state = DRAWER_OPEN =>
          /\ FloatLE(TenthF, openTime)
          /\ ~FloatGE(openTime, LONG_TIMEOUT)
    /\ state = OPEN_FOR_TOO_LONG =>
          /\ FloatLE(FloatZero, openTime)
          /\ ~FloatGE(openTime, SHORT_TIMEOUT)
    /\ openTime.m \in 0..(Pow2(24) - 1)

C20_Witness ==
    /\ IsTick
    /\ pre.state = OPEN_FOR_TOO_LONG /\ state = OPEN_FOR_TOO_LONG
    /\ FloatGE(FloatAddTenth(pre.openTime), SHORT_TIMEOUT)
    /\ openTime = FloatZero

====
